---- MODULE Spec2Model ----
(***************************************************************************)
(* Model of tpsread's TPS class (src/tpsread/tps.py): opening a TopSpeed   *)
(* file (header parse, marker check), the catalog scan __getdefinition,    *)
(* block_contains and read/seek.  The collaborators that tps.py imports    *)
(* (TpsDecryptor, TpsTablesList, TpsPagesList, TpsRecordsList) are         *)
(* modelled from their documented contracts.                               *)
(***************************************************************************)
EXTENDS Integers, Sequences, FiniteSets, TLC

VARIABLES
    disk,                  \* the file on disk: isfile, file_size, header fields
    password,              \* TPS.password
    check,                 \* TPS.check
    tree,                  \* what the page directory walk finds in the file
    pc,                    \* position inside TPS.__init__ / result of the call
    exception,             \* exception that left __init__, or None
    stdout,                \* lines printed
    warnings,              \* warnings issued
    header,                \* TPS.header (None while the attribute is not set)
    pages,                 \* TPS.pages (None while the attribute is not set)
    tables,                \* TPS.tables: table_number -> [name, definition_bytes]
    current_table_number,  \* TPS.current_table_number
    pageIdx,               \* position of the outer for loop of __getdefinition
    recIdx,                \* position of the inner for loop of __getdefinition
    visited,               \* page_refs the outer loop has taken, in order
    applied,               \* records the inner loop has taken, with their page
    calls,                 \* registry calls made for the latest record
    tps_file,              \* the mmap: its bytes and its cursor
    ret                    \* latest call of read / seek / block_contains

vars == << disk, password, check, tree, pc, exception, stdout, warnings,
           header, pages, tables,
           current_table_number, pageIdx, recIdx, visited, applied, calls,
           tps_file, ret >>

None == "None"

(***************************************************************************)
(* Bounds of the model.                                                    *)
(***************************************************************************)
MaxPages == 2      \* pages in the directory
MaxRecs == 2       \* records in the whole file
MaxTable == 2      \* table numbers 1..MaxTable
MaxWords == 4      \* 32-bit words after the fixed header that may be non-zero
MaxRef == 2        \* block / page references 0..MaxRef
MaxFileLen == 3    \* bytes of the mmap in the read specification
MaxByte == 1       \* byte values 0..MaxByte in the read specification

(***************************************************************************)
(* Constants of the program.                                               *)
(***************************************************************************)
HeaderRead == 512          \* self.read(0x200)
HeaderFixed == 32          \* 0x20: bytes of the header before the arrays
ByteMod == 256
TopSpeedMark == << 116, 79, 112, 83, 0, 0 >>     \* b'tOpS\x00\x00'

Min(a, b) == IF a < b THEN a ELSE b

SeqsUpTo(S, n) == UNION { [1..k -> S] : k \in 0..n }

RECURSIVE Sum(_, _)
Sum(f, n) == IF n = 0 THEN 0 ELSE f[n] + Sum(f, n - 1)

(***************************************************************************)
(* TpsDecryptor.                                                           *)
(***************************************************************************)
is_encrypted(pw) == pw # None /\ pw # ""

KeyOf(pw) == Len(pw) % ByteMod

DecryptByte(b, pw) == (b + ByteMod - KeyOf(pw)) % ByteMod

EncryptByte(b, pw) == (b + KeyOf(pw)) % ByteMod

decrypt(bytes, size, pos, pw) ==
    [ i \in 1..size |-> DecryptByte(bytes[pos + i], pw) ]

(***************************************************************************)
(* TpsTablesList.                                                          *)
(***************************************************************************)
NoTables == [ n \in {} |-> [ name |-> "", definition_bytes |-> << >> ] ]

get_numbers(t) == DOMAIN t

add(t, n) ==
    IF n \in DOMAIN t THEN t
    ELSE [ m \in (DOMAIN t) \cup {n} |->
             IF m = n THEN [ name |-> "", definition_bytes |-> << >> ] ELSE t[m] ]

set_name(t, n, name) == [ add(t, n) EXCEPT ![n].name = name ]

add_definition(t, n, bytes) ==
    [ add(t, n) EXCEPT ![n].definition_bytes = @ \o bytes ]

TableComplete(tb) == tb.name # "" /\ tb.definition_bytes # << >>

iscomplete(t) == \A n \in DOMAIN t : TableComplete(t[n])

get_number(t, name) ==
    IF \E n \in DOMAIN t : t[n].name = name
    THEN CHOOSE n \in DOMAIN t : t[n].name = name
    ELSE None

(***************************************************************************)
(* Records of a leaf page, as TpsRecordsList yields them.                  *)
(***************************************************************************)
TableNumbers == 1..MaxTable

NullRecord ==
    [ type |-> "NULL", table_number |-> 0, table_name |-> "",
      table_definition_bytes |-> << >> ]

NameRecord(n, name) ==
    [ type |-> "TABLE_NAME", table_number |-> n, table_name |-> name,
      table_definition_bytes |-> << >> ]

DefinitionRecord(n, bytes) ==
    [ type |-> "TABLE_DEFINITION", table_number |-> n, table_name |-> "",
      table_definition_bytes |-> bytes ]

DataRecord(n) ==
    [ type |-> "DATA", table_number |-> n, table_name |-> "",
      table_definition_bytes |-> << >> ]

Records ==
    {NullRecord}
    \cup { NameRecord(n, name) : n \in TableNumbers, name \in {"", "UNNAMED"} }
    \cup { DefinitionRecord(n, b) : n \in TableNumbers, b \in { << >>, << 1 >> } }
    \cup { DataRecord(n) : n \in TableNumbers }

(***************************************************************************)
(* TpsPagesList: list() is the sequence of page addresses in discovery     *)
(* order, pages[page_ref] the page at an address.                          *)
(***************************************************************************)
PageRef(k) == k

RECURSIVE Offset(_, _)
Offset(cuts, k) == IF k = 1 THEN 0 ELSE cuts[k - 1] + Offset(cuts, k - 1)

PageShapes(n, total) ==
    { s \in [1..n -> [ level : 0..1, count : 0..MaxRecs ]] :
        /\ Sum([ k \in 1..n |-> s[k].count ], n) = total
        /\ \A k \in 1..n : s[k].level > 0 => s[k].count = 0 }

MakeTree(n, shape, recs) ==
    LET cuts == [ k \in 1..n |-> shape[k].count ]
    IN  [ list |-> [ k \in 1..n |-> PageRef(k) ],
          store |-> [ k \in 1..n |->
                        [ hierarchy_level |-> shape[k].level,
                          records |-> SubSeq(recs, Offset(cuts, k) + 1,
                                             Offset(cuts, k) + cuts[k]) ] ] ]

\* The two-table file: P1 = <<definition of 1>>, P2 = <<definition of 2,
\* name of 1>>, P3 = <<name of 2>>, discovered in the order P1, P2, P3.
ScenarioTree ==
    [ list |-> << PageRef(1), PageRef(2), PageRef(3) >>,
      store |-> << [ hierarchy_level |-> 0,
                     records |-> << DefinitionRecord(1, << 1 >>) >> ],
                   [ hierarchy_level |-> 0,
                     records |-> << DefinitionRecord(2, << 1 >>),
                                    NameRecord(1, "UNNAMED") >> ],
                   [ hierarchy_level |-> 0,
                     records |-> << NameRecord(2, "UNNAMED") >> ] >> ]

\* A one-page file: a leaf holding the name of table 1.
SmallTree ==
    [ list |-> << PageRef(1) >>,
      store |-> << [ hierarchy_level |-> 0,
                     records |-> << NameRecord(1, "UNNAMED") >> ] >> ]

(***************************************************************************)
(* The header: Struct('header', ...).parse(self.read(0x200)).              *)
(***************************************************************************)
LowerMark == << 116, 111, 112, 83, 0, 0 >>       \* b'topS\x00\x00'
ZeroMark == << 0, 0, 0, 0, 0, 0 >>

\* The marker bytes as stored: written under the key the file was made with.
StoredMark(d) ==
    IF is_encrypted(d.key)
    THEN [ i \in 1..6 |-> EncryptByte(d.mark[i], d.key) ] ELSE d.mark

\* The marker bytes of self.read(0x200).
ReadMark(d, pw) ==
    IF is_encrypted(pw)
    THEN [ i \in 1..6 |-> DecryptByte(StoredMark(d)[i], pw) ] ELSE StoredMark(d)

\* The k-th 32-bit word after the fixed part of the header.
Word(d, k) == IF k <= Len(d.refs) THEN d.refs[k] ELSE 0

\* Elements Array(lambda ctx: (ctx['size'] - 0x20) / 2 / 4, ...) parses: the
\* count is a float and the array loop runs while c < count.
ArrayCount(size) ==
    IF size <= HeaderFixed THEN 0 ELSE (size - HeaderFixed + 7) \div 8

\* Outcome of header.parse on the bytes read: the exception raised, or None.
\* The marker ends at byte 20 (4 + 2 + 4 + 4 + 6), the fixed fields at byte 32.
ParseError(d, pw) ==
    LET avail == Min(HeaderRead, d.file_size)
    IN  IF avail < 20 THEN "FieldError"
        ELSE IF ReadMark(d, pw) # TopSpeedMark THEN "ConstError"
        ELSE IF avail < HeaderFixed THEN "FieldError"
        ELSE IF HeaderFixed + 8 * ArrayCount(d.size) > avail THEN "ArrayError"
        ELSE None

ParsedHeader(d) ==
    LET n == ArrayCount(d.size)
    IN  [ present |-> TRUE, size |-> d.size,
          block_start_ref |-> [ i \in 1..n |-> Word(d, i) ],
          block_end_ref |-> [ i \in 1..n |-> Word(d, n + i) ] ]

NoHeader ==
    [ present |-> FALSE, size |-> 0,
      block_start_ref |-> << >>, block_end_ref |-> << >> ]

NoPages == [ present |-> FALSE, list |-> << >>, store |-> << >> ]

(***************************************************************************)
(* TPS.__init__, lines 44-90: the file checks, the mmap, the header read   *)
(* and parse, the page directory.  A ConstError is caught at line 93: the  *)
(* message is printed and __init__ returns.  Any other exception leaves    *)
(* __init__.  The bytes of the header are held in disk, field by field;    *)
(* tps_file holds the bytes of the map only where read and seek are        *)
(* examined.                                                               *)
(***************************************************************************)
Open ==
    /\ pc = "new"
    /\ IF ~disk.isfile
       THEN /\ pc' = "raised"
            /\ exception' = "FileNotFoundError"
            /\ UNCHANGED << stdout, header, pages >>
       ELSE IF disk.file_size = 0
       THEN /\ pc' = "raised"
            /\ exception' = "ValueError"
            /\ UNCHANGED << stdout, header, pages >>
       ELSE IF ParseError(disk, password) = "ConstError"
       THEN /\ pc' = "done"
            /\ stdout' = Append(stdout, "Bad cryptographic keys.")
            /\ UNCHANGED << exception, header, pages >>
       ELSE IF ParseError(disk, password) # None
       THEN /\ pc' = "raised"
            /\ exception' = ParseError(disk, password)
            /\ UNCHANGED << stdout, header, pages >>
       ELSE /\ pc' = "scan_pages"
            /\ header' = ParsedHeader(disk)
            /\ pages' = [ present |-> TRUE, list |-> tree.list, store |-> tree.store ]
            /\ UNCHANGED << exception, stdout >>
    /\ warnings' = IF disk.isfile /\ check /\ disk.file_size % 64 # 0
                   THEN Append(warnings, "File size is not a multiple of 64 bytes.")
                   ELSE warnings
    /\ UNCHANGED << disk, password, check, tree, tables, current_table_number, pageIdx,
                    recIdx, visited, applied, calls, tps_file, ret >>

(***************************************************************************)
(* TPS.__getdefinition, lines 96-109.                                      *)
(***************************************************************************)
RECURSIVE reversed(_)
reversed(s) == IF s = << >> THEN << >> ELSE Append(reversed(Tail(s)), Head(s))

\* the pages taken in discovery order
ScanOrder_forward(list) == list

\* line 97: the sequence the outer loop iterates over
ScanOrder(list) == reversed(list)

\* line 98
IsLeaf(page) == page.hierarchy_level = 0

\* the NULL test of line 100 left out
NeedsAdd_anytype(record, t) == record.table_number \notin get_numbers(t)

\* line 100
NeedsAdd(record, t) ==
    record.type # "NULL" /\ record.table_number \notin get_numbers(t)

\* the inner break of lines 106-107 left out
BreakAfterRecord_never(t) == FALSE

\* line 106
BreakAfterRecord(t) == iscomplete(t)

\* line 108
BreakAfterPage(t) == iscomplete(t)

Call(op, n, t) == [ op |-> op, number |-> n, known |-> n \in get_numbers(t) ]

\* lines 100-101
AfterAdd(record, t) ==
    IF NeedsAdd(record, t) THEN add(t, record.table_number) ELSE t

\* lines 102-103
AfterName(record, t) ==
    IF record.type = "TABLE_NAME"
    THEN set_name(t, record.table_number, record.table_name) ELSE t

\* lines 104-105
AfterDefinition(record, t) ==
    IF record.type = "TABLE_DEFINITION"
    THEN add_definition(t, record.table_number, record.table_definition_bytes)
    ELSE t

\* lines 100-105: the registry after one record
ApplyRecord(record, t) ==
    AfterDefinition(record, AfterName(record, AfterAdd(record, t)))

\* lines 100-105: the registry calls made for one record
CallsFor(record, t) ==
    LET t1 == AfterAdd(record, t)
        t2 == AfterName(record, t1)
    IN  (IF NeedsAdd(record, t)
         THEN << Call("add", record.table_number, t) >> ELSE << >>)
        \o (IF record.type = "TABLE_NAME"
            THEN << Call("set_name", record.table_number, t1) >> ELSE << >>)
        \o (IF record.type = "TABLE_DEFINITION"
            THEN << Call("add_definition", record.table_number, t2) >> ELSE << >>)

CurrentRef == ScanOrder(pages.list)[pageIdx]

CurrentPage == pages.store[CurrentRef]

\* line 97 takes the next page_ref; line 98 looks at its level.  For a page
\* that is no leaf the body is skipped and line 108 runs at once.
ScanNextPage ==
    /\ pc = "scan_pages"
    /\ pageIdx < Len(pages.list)
    /\ pageIdx' = pageIdx + 1
    /\ LET ref == ScanOrder(pages.list)[pageIdx + 1] IN
         /\ visited' = Append(visited, ref)
         /\ IF IsLeaf(pages.store[ref])
            THEN pc' = "scan_records"
            ELSE pc' = IF BreakAfterPage(tables) THEN "set_current_table"
                       ELSE "scan_pages"
    /\ recIdx' = 0
    /\ UNCHANGED << disk, password, check, tree, exception, stdout, warnings,
                    header, pages, tables,
                    current_table_number, applied, calls, tps_file, ret >>

\* lines 99-107: one iteration of the inner loop; after the inner break,
\* line 108 runs.
ScanRecord ==
    /\ pc = "scan_records"
    /\ recIdx < Len(CurrentPage.records)
    /\ LET record == CurrentPage.records[recIdx + 1]
           t == ApplyRecord(record, tables)
       IN  /\ tables' = t
           /\ calls' = CallsFor(record, tables)
           /\ applied' = Append(applied, [ page_ref |-> CurrentRef, record |-> record ])
           /\ recIdx' = recIdx + 1
           /\ pc' = IF BreakAfterRecord(t)
                    THEN (IF BreakAfterPage(t) THEN "set_current_table"
                          ELSE "scan_pages")
                    ELSE "scan_records"
    /\ UNCHANGED << disk, password, check, tree, exception, stdout, warnings,
                    header, pages,
                    current_table_number, pageIdx, visited, tps_file, ret >>

\* the inner loop runs out of records; line 108
ScanEndOfPage ==
    /\ pc = "scan_records"
    /\ recIdx = Len(CurrentPage.records)
    /\ pc' = IF BreakAfterPage(tables) THEN "set_current_table" ELSE "scan_pages"
    /\ UNCHANGED << disk, password, check, tree, exception, stdout, warnings,
                    header, pages, tables,
                    current_table_number, pageIdx, recIdx, visited, applied, calls,
                    tps_file, ret >>

\* the outer loop runs out of pages
ScanExhausted ==
    /\ pc = "scan_pages"
    /\ pageIdx = Len(pages.list)
    /\ pc' = "set_current_table"
    /\ UNCHANGED << disk, password, check, tree, exception, stdout, warnings,
                    header, pages, tables,
                    current_table_number, pageIdx, recIdx, visited, applied, calls,
                    tps_file, ret >>

(***************************************************************************)
(* TPS.set_current_table, called at line 92; __init__ then returns.        *)
(***************************************************************************)
TableNameArgs == { None, "UNNAMED" }

SetCurrentTable ==
    /\ pc = "set_current_table"
    /\ \E tablename \in TableNameArgs :
         current_table_number' = get_number(tables, tablename)
    /\ pc' = "done"
    /\ UNCHANGED << disk, password, check, tree, exception, stdout, warnings,
                    header, pages, tables,
                    pageIdx, recIdx, visited, applied, calls, tps_file, ret >>

(***************************************************************************)
(* TPS.block_contains, lines 111-115.                                      *)
(***************************************************************************)
Refs == 0..MaxRef

RECURSIVE BlockLoop(_, _, _, _)
BlockLoop(h, i, start_ref, end_ref) ==
    IF i > Len(h.block_start_ref) THEN FALSE
    ELSE IF h.block_start_ref[i] <= start_ref /\ end_ref <= h.block_end_ref[i]
         THEN TRUE
         ELSE BlockLoop(h, i + 1, start_ref, end_ref)

\* the comparison of line 113 made strict
block_contains_strict(h, start_ref, end_ref) ==
    \E i \in 1..Len(h.block_start_ref) :
        h.block_start_ref[i] < start_ref /\ end_ref <= h.block_end_ref[i]

block_contains(h, start_ref, end_ref) == BlockLoop(h, 1, start_ref, end_ref)

NoRet ==
    [ op |-> "none", size |-> 0, pos |-> 0, has_pos |-> FALSE, before |-> 0,
      start_ref |-> 0, end_ref |-> 0,
      raised |-> None, bytes |-> << >>, found |-> FALSE ]

BlockContains ==
    /\ pc = "done"
    /\ \E start_ref \in Refs, end_ref \in Refs :
         ret' = [ NoRet EXCEPT
                    !.op = "block_contains",
                    !.start_ref = start_ref, !.end_ref = end_ref,
                    !.raised = IF header.present THEN None ELSE "AttributeError",
                    !.found = IF header.present
                              THEN block_contains(header, start_ref, end_ref)
                              ELSE FALSE ]
    /\ UNCHANGED << disk, password, check, tree, pc, exception, stdout, warnings,
                    header, pages,
                    tables, current_table_number, pageIdx, recIdx, visited,
                    applied, calls, tps_file >>

(***************************************************************************)
(* TPS.read and TPS.seek, lines 117-128, on the mmap.                      *)
(***************************************************************************)
FileLen == Len(tps_file.bytes)

\* mmap.read(size) at cursor c: the bytes up to the end of the map
MmapRead(bytes, c, size) == SubSeq(bytes, c + 1, Min(c + size, Len(bytes)))

\* mmap.seek(pos) raises ValueError outside 0..len
SeekFails(pos) == pos < 0 \/ pos > FileLen

\* the seek of line 119 left out
SeekTarget_noseek(has_pos, pos, cursor) == cursor

\* lines 118-121
SeekTarget(has_pos, pos, cursor) == IF has_pos THEN pos ELSE cursor

ReadBody(size, has_pos, pos) ==
    LET at == SeekTarget(has_pos, pos, tps_file.pos)
        call == [ NoRet EXCEPT !.op = "read", !.size = size, !.pos = pos,
                               !.has_pos = has_pos, !.before = tps_file.pos ]
    IN  IF has_pos /\ SeekFails(pos)
        THEN /\ ret' = [ call EXCEPT !.raised = "ValueError" ]
             /\ UNCHANGED tps_file
        ELSE IF is_encrypted(password)
        THEN /\ ret' = [ call EXCEPT !.bytes =
                           decrypt(tps_file.bytes, Min(size, FileLen - at), at,
                                   password) ]
             /\ tps_file' = [ tps_file EXCEPT !.pos = at ]
        ELSE /\ ret' = [ call EXCEPT !.bytes = MmapRead(tps_file.bytes, at, size) ]
             /\ tps_file' = [ tps_file EXCEPT !.pos = Min(at + size, FileLen) ]

Sizes == 0..(MaxFileLen + 1)

Positions == 0..(MaxFileLen + 1)

Read ==
    /\ pc = "done"
    /\ \E size \in Sizes :
         \/ \E pos \in Positions : ReadBody(size, TRUE, pos)
         \/ ReadBody(size, FALSE, 0)
    /\ UNCHANGED << disk, password, check, tree, pc, exception, stdout, warnings,
                    header, pages,
                    tables, current_table_number, pageIdx, recIdx, visited,
                    applied, calls >>

Seek ==
    /\ pc = "done"
    /\ \E pos \in Positions :
         IF SeekFails(pos)
         THEN /\ ret' = [ NoRet EXCEPT !.op = "seek", !.pos = pos, !.has_pos = TRUE,
                                       !.before = tps_file.pos,
                                       !.raised = "ValueError" ]
              /\ UNCHANGED tps_file
         ELSE /\ ret' = [ NoRet EXCEPT !.op = "seek", !.pos = pos, !.has_pos = TRUE,
                                       !.before = tps_file.pos ]
              /\ tps_file' = [ tps_file EXCEPT !.pos = pos ]
    /\ UNCHANGED << disk, password, check, tree, pc, exception, stdout, warnings,
                    header, pages,
                    tables, current_table_number, pageIdx, recIdx, visited,
                    applied, calls >>

(***************************************************************************)
(* Initial states and specifications.                                      *)
(***************************************************************************)
GoodDisk ==
    [ isfile |-> TRUE, file_size |-> 1024, mark |-> TopSpeedMark, key |-> None,
      size |-> HeaderFixed, refs |-> << >> ]

\* the TPS object when __init__ starts: lines 47-57
Fresh ==
    /\ pc = "new"
    /\ exception = None
    /\ stdout = << >>
    /\ warnings = << >>
    /\ header = NoHeader
    /\ pages = NoPages
    /\ tables = NoTables
    /\ current_table_number = None
    /\ pageIdx = 0
    /\ recIdx = 0
    /\ visited = << >>
    /\ applied = << >>
    /\ calls = << >>
    /\ ret = NoRet

NoMap == [ bytes |-> << >>, pos |-> 0 ]

\* the catalog scan over every small page directory
InitScan ==
    /\ disk = GoodDisk
    /\ password = None
    /\ check = FALSE
    /\ \/ \E n \in 0..MaxPages, recs \in SeqsUpTo(Records, MaxRecs) :
            \E shape \in PageShapes(n, Len(recs)) : tree = MakeTree(n, shape, recs)
       \/ tree = ScenarioTree
    /\ tps_file = NoMap
    /\ Fresh

NextScan ==
    \/ Open
    \/ ScanNextPage
    \/ ScanRecord
    \/ ScanEndOfPage
    \/ ScanExhausted
    \/ SetCurrentTable

Spec == InitScan /\ [][NextScan]_vars

\* opening files with every header
FileSizes == { 0, 16, 24, 65, 1024 }

HeaderSizes == { 0, 24, 32, 36, 40, 48, 512, 520 }

Passwords == { None, "secret" }

InitHeader ==
    /\ disk \in [ isfile : BOOLEAN, file_size : FileSizes,
                  mark : { TopSpeedMark, LowerMark, ZeroMark }, key : Passwords,
                  size : HeaderSizes, refs : { << >>, << 1, 2 >> } ]
    /\ password \in Passwords
    /\ check \in BOOLEAN
    /\ tree = SmallTree
    /\ tps_file = NoMap
    /\ Fresh

SpecHeader == InitHeader /\ [][NextScan]_vars

\* block_contains on every small block table
InitBlocks ==
    /\ disk \in [ isfile : {TRUE}, file_size : {1024},
                  mark : { TopSpeedMark, LowerMark }, key : {None},
                  size : { 32, 36, 40, 48 }, refs : [1..MaxWords -> Refs] ]
    /\ password = None
    /\ check = FALSE
    /\ tree = SmallTree
    /\ tps_file = NoMap
    /\ Fresh

NextBlocks == NextScan \/ BlockContains

SpecBlocks == InitBlocks /\ [][NextBlocks]_vars

\* read and seek on an open file
InitRead ==
    /\ disk = GoodDisk
    /\ password \in Passwords
    /\ check = FALSE
    /\ tree = SmallTree
    /\ tps_file \in { [ bytes |-> b, pos |-> c ] :
                        b \in SeqsUpTo(0..MaxByte, MaxFileLen), c \in 0..MaxFileLen }
    /\ tps_file.pos <= Len(tps_file.bytes)
    /\ pc = "done"
    /\ exception = None
    /\ stdout = << >>
    /\ warnings = << >>
    /\ header = ParsedHeader(GoodDisk)
    /\ pages = [ present |-> TRUE, list |-> SmallTree.list, store |-> SmallTree.store ]
    /\ tables = set_name(NoTables, 1, "UNNAMED")
    /\ current_table_number = None
    /\ pageIdx = 1
    /\ recIdx = 1
    /\ visited = << PageRef(1) >>
    /\ applied = << [ page_ref |-> PageRef(1), record |-> NameRecord(1, "UNNAMED") ] >>
    /\ calls = CallsFor(NameRecord(1, "UNNAMED"), NoTables)
    /\ ret = NoRet

NextRead == Read \/ Seek

SpecRead == InitRead /\ [][NextRead]_vars

(***************************************************************************)
(* Properties.                                                             *)
(***************************************************************************)
ScanOver == pc \in { "set_current_table", "done" } /\ pages.present

\* the table numbers of the records taken so far that are not NULL
SeenNumbers ==
    { applied[i].record.table_number :
        i \in { j \in 1..Len(applied) : applied[j].record.type # "NULL" } }

\* C1: on the two-table file visited as P3, P2, P1 the scan ends only after
\* P1, and then tables 1 and 2 both have a name and a definition.
C1_ScenarioCompletesAfterP1 ==
    (tree = ScenarioTree /\ ScanOver) =>
        /\ visited = << PageRef(3), PageRef(2), PageRef(1) >>
        /\ \A n \in {1, 2} : n \in get_numbers(tables) /\ TableComplete(tables[n])

\* C2: a file whose decrypted marker is not tOpS\0\0 is never opened:
\* __init__ does not return a TPS object.
C2_BadMarkerNeverOpens ==
    (ReadMark(disk, password) # TopSpeedMark) => pc # "done"

\* C3: once the registry has become complete (it holds a table and every
\* table is complete) no further record is applied and no further page is
\* visited.
C3_StopsWhenComplete ==
    [][ (tables # NoTables /\ iscomplete(tables)) =>
          (tables' = tables /\ applied' = applied /\ visited' = visited) ]_vars

C3_Witness ==
    /\ ScanOver
    /\ tables # NoTables
    /\ iscomplete(tables)
    /\ recIdx < Len(CurrentPage.records)
    /\ pageIdx < Len(pages.list)

\* C4: iscomplete() never goes from true to false and get_numbers() never
\* shrinks.
C4_RegistryMonotone ==
    [][ /\ iscomplete(tables) => iscomplete(tables')
        /\ Cardinality(get_numbers(tables)) <= Cardinality(get_numbers(tables')) ]_vars

C6_BlockArrayLength ==
    header.present =>
        /\ header.size >= HeaderFixed
        /\ (header.size - HeaderFixed) % 8 = 0
        /\ Len(header.block_start_ref) = (header.size - HeaderFixed) \div 8
        /\ Len(header.block_end_ref) = (header.size - HeaderFixed) \div 8

\* C7: block_contains(start_ref, end_ref) is true exactly when some block i
\* has block_start_ref[i] <= start_ref and end_ref <= block_end_ref[i], and
\* the call leaves the header as it was parsed.
C7_BlockContains ==
    (ret.op = "block_contains" /\ header.present) =>
        /\ ret.raised = None
        /\ ret.found =
             (\E i \in DOMAIN header.block_start_ref :
                 /\ header.block_start_ref[i] <= ret.start_ref
                 /\ ret.end_ref <= header.block_end_ref[i])
        /\ header = ParsedHeader(disk)

C7_Witness ==
    /\ ret.op = "block_contains"
    /\ ret.found
    /\ Len(header.block_start_ref) = 2
    /\ header.block_start_ref[1] > ret.start_ref
    /\ header.block_start_ref[2] = ret.start_ref

\* C8: without a passphrase read(size, pos) returns the bytes of the file in
\* [pos, pos + size), whatever the cursor was and whatever was called before.
C8_ReadAtPosition ==
    (ret.op = "read" /\ ret.has_pos /\ ~is_encrypted(password)
       /\ ret.pos <= Len(tps_file.bytes)) =>
        /\ ret.raised = None
        /\ Len(ret.bytes) = Min(ret.size, Len(tps_file.bytes) - ret.pos)
        /\ \A i \in 1..Len(ret.bytes) : ret.bytes[i] = tps_file.bytes[ret.pos + i]

C8_Witness ==
    /\ ret.op = "read"
    /\ ret.has_pos
    /\ ~is_encrypted(password)
    /\ ret.before > ret.pos
    /\ ret.size = 2
    /\ Len(ret.bytes) = 2
    /\ ret.bytes[1] # ret.bytes[2]

\* C9: the scan never ends with an empty registry while a leaf page of the
\* directory holds a record that is not NULL.
C9_NoEarlyStopOnEmpty ==
    (ScanOver /\ tables = NoTables) =>
        \A k \in 1..Len(pages.list) :
            LET page == pages.store[pages.list[k]] IN
              page.hierarchy_level = 0 =>
                \A i \in 1..Len(page.records) : page.records[i].type = "NULL"

\* C10: get_numbers() is the set of table numbers of the non-NULL records
\* taken so far; add is called only for an unknown number, set_name and
\* add_definition only for a known one.
C10_NumbersAreSeen ==
    /\ get_numbers(tables) = SeenNumbers
    /\ \A i \in 1..Len(calls) :
         IF calls[i].op = "add" THEN ~calls[i].known ELSE calls[i].known

C10_Witness ==
    /\ Len(applied) = 2
    /\ applied[1].record.type = "TABLE_DEFINITION"
    /\ applied[2].record.type = "NULL"
    /\ Len(calls) = 0
    /\ Cardinality(get_numbers(tables)) = 1

====
